---------------------------- MODULE Spec2Model ----------------------------
(***************************************************************************)
(* Model of csv-slice (src/src/lib.rs, src/src/error.rs).                  *)
(*                                                                         *)
(* extract_rows and extract_columns are modelled statement by statement    *)
(* over a source file that is described by what the csv reader meets       *)
(* in it: whether the path opens, the header line, and the data lines.     *)
(* A line is a record [k, f]: k = "rec" with the tuple of fields f,        *)
(* k = "bad" (bytes the reader cannot turn into a StringRecord) or         *)
(* k = "io" (the read of the underlying file fails at this line).          *)
(***************************************************************************)
EXTENDS Integers, Sequences, FiniteSets, TLC

\* ------------------------------------------------------------------ bounds
MaxRows == 3        \* data lines in a source file
MaxIdx  == 4        \* start and end range over 0..MaxIdx
MaxCols == 2        \* requested column names per call

\* ------------------------------------------------------------- input sets
Names  == {"a", "b", "c"}          \* column names a caller may request
HNames == {"a", "b"}               \* names that occur in headers
Values == {"x", "y"}               \* field values of data lines

SeqsUpTo(S, n) == UNION {[1..k -> S] : k \in 0..n}

Rec(f)  == [k |-> "rec", f |-> f]
BadLine == [k |-> "bad", f |-> <<>>]
IoLine  == [k |-> "io",  f |-> <<>>]

HeaderFields == [1..1 -> HNames] \cup [1..2 -> HNames]
DataFields   == [1..1 -> Values] \cup {<<"x", "y">>, <<"y", "x">>, <<"x", "x">>}
Lines        == {Rec(f) : f \in DataFields} \cup {BadLine, IoLine}

\* The files a call can meet: a path that does not open, an empty file, a
\* file whose first read fails, and a header line followed by data lines.
Sources ==
    {[opens |-> FALSE, header |-> Rec(<<>>), lines |-> <<>>],
     [opens |-> TRUE,  header |-> Rec(<<>>), lines |-> <<>>],
     [opens |-> TRUE,  header |-> IoLine,    lines |-> <<>>]}
    \cup
    {[opens |-> TRUE, header |-> Rec(h), lines |-> ls] :
        h \in HeaderFields, ls \in SeqsUpTo(Lines, MaxRows)}

\* ----------------------------------------------------------- error values
\* CsvSliceError: kind is the enum variant, cause is where the wrapped error
\* came from, name is the payload of ColumnNotFound.  A failed call carries
\* no rows (Result::Err has no Vec).
NoName == "-"

Ok(rows) ==
    [tag |-> "Ok", kind |-> "-", cause |-> "-", name |-> NoName, rows |-> rows]

Pending ==
    [tag |-> "Pending", kind |-> "-", cause |-> "-", name |-> NoName, rows |-> <<>>]

ColumnNotFound(n) ==
    [tag |-> "Err", kind |-> "ColumnNotFound", cause |-> "column", name |-> n,
     rows |-> <<>>]

\* `?` on a csv::Error goes through From<csv::Error> (#[from] on Csv).
FromCsvError(cause) ==
    [tag |-> "Err", kind |-> "Csv", cause |-> cause, name |-> NoName, rows |-> <<>>]

\* `?` on a std::io::Error goes through From<std::io::Error> (#[from] on Io).
FromIoError(cause) ==
    [tag |-> "Err", kind |-> "Io", cause |-> cause, name |-> NoName, rows |-> <<>>]

\* ------------------------------------------------------------- the reader
\* csv::Reader::from_reader(..): has_headers = true, flexible = false.
\* What rdr.headers() returns.
ReaderHeaders(s) ==
    IF s.header.k = "io" THEN [tag |-> "Err", cause |-> "read", f |-> <<>>]
    ELSE [tag |-> "Ok", cause |-> "-", f |-> s.header.f]

\* What the i-th item (0-based) of rdr.records() is: the header is consumed
\* first and is never yielded; a record whose field count differs from the
\* header's is an UnequalLengths error because the reader is not flexible.
ReaderRecord(s, i) ==
    IF s.header.k = "io" THEN [tag |-> "Err", cause |-> "read", f |-> <<>>]
    ELSE IF i >= Len(s.lines) THEN [tag |-> "None", cause |-> "-", f |-> <<>>]
    ELSE LET l == s.lines[i + 1] IN
         IF l.k = "io" THEN [tag |-> "Err", cause |-> "read", f |-> <<>>]
         ELSE IF l.k = "bad" THEN [tag |-> "Err", cause |-> "parse", f |-> <<>>]
         ELSE IF Len(l.f) # Len(s.header.f)
              THEN [tag |-> "Err", cause |-> "lengths", f |-> <<>>]
         ELSE [tag |-> "Ok", cause |-> "-", f |-> l.f]

\* ----------------------------------------------------------- extract_rows
\* Variants of the range test: the upper bound taken inclusive, and the
\* lower bound taken exclusive.
InRange_Inclusive(i, lo, hi) == i >= lo /\ i <= hi

InRange_SkipsStart(i, lo, hi) == i > lo /\ i < hi

\* if i >= start && i < end
InRange(i, lo, hi) == i >= lo /\ i < hi

\* Variants of the loop exit: one record too late, and one record too early.
PastEnd_Late(i, hi) == i > hi

PastEnd_Early(i, hi) == i + 1 >= hi

\* if i >= end { break; }
PastEnd(i, hi) == i >= hi

\* The for loop of extract_rows from index i on, with `acc` collected so far.
RECURSIVE RowsLoop(_, _, _, _, _)
RowsLoop(s, lo, hi, i, acc) ==
    LET r == ReaderRecord(s, i) IN
    IF r.tag = "None" THEN Ok(acc)
    ELSE IF r.tag = "Err" THEN FromCsvError(r.cause)
    ELSE LET acc2 == IF InRange(i, lo, hi) THEN Append(acc, r.f) ELSE acc IN
         IF PastEnd(i, hi) THEN Ok(acc2)
         ELSE RowsLoop(s, lo, hi, i + 1, acc2)

\* The outcome of one call of extract_rows.
ExtractRows(s, lo, hi) ==
    IF ~s.opens THEN FromIoError("open") ELSE RowsLoop(s, lo, hi, 0, <<>>)

\* -------------------------------------------------------- extract_columns
\* headers.iter().position(|h| h == col): 0-based, -1 for None.
RECURSIVE PositionFrom(_, _, _)
PositionFrom(headers, col, p) ==
    IF p >= Len(headers) THEN -1
    ELSE IF headers[p + 1] = col THEN p
    ELSE PositionFrom(headers, col, p + 1)

\* Variant of position(): the last occurrence instead of the first.
RECURSIVE PositionLastFrom(_, _, _)
PositionLastFrom(headers, col, p) ==
    IF p < 0 THEN -1
    ELSE IF headers[p + 1] = col THEN p
    ELSE PositionLastFrom(headers, col, p - 1)

Position_Last(headers, col) == PositionLastFrom(headers, col, Len(headers) - 1)

Position(headers, col) == PositionFrom(headers, col, 0)

\* columns.iter().map(position .. ok_or_else ..).collect::<Result<_, _>>():
\* the indices in request order, or the first name that has no position.
RECURSIVE ResolveFrom(_, _, _, _)
ResolveFrom(headers, cols, n, acc) ==
    IF n > Len(cols) THEN [tag |-> "Ok", name |-> NoName, idx |-> acc]
    ELSE LET p == Position(headers, cols[n]) IN
         IF p = -1 THEN [tag |-> "Err", name |-> cols[n], idx |-> <<>>]
         ELSE ResolveFrom(headers, cols, n + 1, Append(acc, p))

\* Variant of the resolution: a name without a position resolves to the
\* index behind the last header field instead of failing.
ResolveIndices_Lenient(headers, cols) ==
    [tag |-> "Ok", name |-> NoName,
     idx |-> [n \in 1..Len(cols) |->
                 IF Position(headers, cols[n]) = -1 THEN Len(headers)
                 ELSE Position(headers, cols[n])]]

\* Variant of the resolution: the last name without a position is reported.
RECURSIVE ResolveBackFrom(_, _, _, _)
ResolveBackFrom(headers, cols, n, acc) ==
    IF n < 1 THEN [tag |-> "Ok", name |-> NoName, idx |-> acc]
    ELSE LET p == Position(headers, cols[n]) IN
         IF p = -1 THEN [tag |-> "Err", name |-> cols[n], idx |-> <<>>]
         ELSE ResolveBackFrom(headers, cols, n - 1, <<p>> \o acc)

ResolveIndices_LastAbsent(headers, cols) ==
    ResolveBackFrom(headers, cols, Len(cols), <<>>)

ResolveIndices(headers, cols) == ResolveFrom(headers, cols, 1, <<>>)

\* Variant of get(): the index taken as 1-based.
Get_OneBased(rec, i) == IF i >= 1 /\ i <= Len(rec) THEN rec[i] ELSE ""

\* record.get(i).unwrap_or("")
Get(rec, i) == IF i < Len(rec) THEN rec[i + 1] ELSE ""

\* indices.iter().map(|&i| record.get(i).unwrap_or("").to_string()).collect()
ProjectRow(rec, idx) == [n \in 1..Len(idx) |-> Get(rec, idx[n])]

\* ------------------------------------------------------------------ state
VARIABLES
    op,        \* "rows" or "cols": the function that was called
    src,       \* the file behind `path`
    start,     \* extract_rows: start
    end,       \* extract_rows: end
    columns,   \* extract_columns: columns
    pc,        \* position in the function body
    i,         \* index of the next item of rdr.records()
    headers,   \* extract_columns: headers
    indices,   \* extract_columns: indices
    result,    \* result
    outcome,   \* the returned Result, Pending until the call returns
    reads      \* indices of the data lines the reader has consumed

vars == <<op, src, start, end, columns, pc, i, headers, indices, result,
          outcome, reads>>

InitRows ==
    /\ op = "rows"
    /\ src \in Sources
    /\ start \in 0..MaxIdx
    /\ end \in 0..MaxIdx
    /\ columns = <<>>
    /\ pc = "open"
    /\ i = 0
    /\ headers = <<>>
    /\ indices = <<>>
    /\ result = <<>>
    /\ outcome = Pending
    /\ reads = {}

InitCols ==
    /\ op = "cols"
    /\ src \in Sources
    /\ start = 0
    /\ end = 0
    /\ columns \in SeqsUpTo(Names, MaxCols)
    /\ pc = "open"
    /\ i = 0
    /\ headers = <<>>
    /\ indices = <<>>
    /\ result = <<>>
    /\ outcome = Pending
    /\ reads = {}

Return(o) ==
    /\ outcome' = o
    /\ pc' = "done"

\* The data lines consumed once item i of rdr.records() has been asked for.
Consumed(s, k) == IF k < Len(s.lines) THEN {k} ELSE {}

\* ------------------------------------------------- extract_rows, by steps
\* let file = File::open(path)?;  let mut rdr = ..;  let mut result = ..;
RowsOpen ==
    /\ op = "rows" /\ pc = "open"
    /\ IF src.opens
       THEN /\ pc' = "loop"
            /\ UNCHANGED outcome
       ELSE Return(FromIoError("open"))
    /\ UNCHANGED <<op, src, start, end, columns, i, headers, indices, result,
                   reads>>

\* One iteration of the for loop on a record the reader delivers.
RowsRecord ==
    /\ op = "rows" /\ pc = "loop"
    /\ LET r == ReaderRecord(src, i) IN
       /\ r.tag = "Ok"
       /\ LET res2 == IF InRange(i, start, end) THEN Append(result, r.f)
                      ELSE result IN
          /\ result' = res2
          /\ IF PastEnd(i, end)
             THEN /\ Return(Ok(res2))
                  /\ UNCHANGED i
             ELSE /\ i' = i + 1
                  /\ UNCHANGED <<pc, outcome>>
    /\ reads' = reads \cup Consumed(src, i)
    /\ UNCHANGED <<op, src, start, end, columns, headers, indices>>

\* let record = record?;  on an Err item
RowsRecordErr ==
    /\ op = "rows" /\ pc = "loop"
    /\ LET r == ReaderRecord(src, i) IN
       /\ r.tag = "Err"
       /\ Return(FromCsvError(r.cause))
    /\ reads' = reads \cup Consumed(src, i)
    /\ UNCHANGED <<op, src, start, end, columns, i, headers, indices, result>>

\* The iterator is exhausted: Ok(result)
RowsExhausted ==
    /\ op = "rows" /\ pc = "loop"
    /\ ReaderRecord(src, i).tag = "None"
    /\ Return(Ok(result))
    /\ UNCHANGED <<op, src, start, end, columns, i, headers, indices, result,
                   reads>>

\* ---------------------------------------------- extract_columns, by steps
\* let file = File::open(path)?;  let mut rdr = ..;
ColsOpen ==
    /\ op = "cols" /\ pc = "open"
    /\ IF src.opens
       THEN /\ pc' = "headers"
            /\ UNCHANGED outcome
       ELSE Return(FromIoError("open"))
    /\ UNCHANGED <<op, src, start, end, columns, i, headers, indices, result,
                   reads>>

\* let headers = rdr.headers()?.clone();
ColsHeaders ==
    /\ op = "cols" /\ pc = "headers"
    /\ LET h == ReaderHeaders(src) IN
       IF h.tag = "Err"
       THEN /\ Return(FromCsvError(h.cause))
            /\ UNCHANGED headers
       ELSE /\ headers' = h.f
            /\ pc' = "resolve"
            /\ UNCHANGED outcome
    /\ UNCHANGED <<op, src, start, end, columns, i, indices, result, reads>>

\* let indices: Vec<_> = columns.iter().map(..).collect::<Result<_, _>>()?;
\* let mut result = Vec::new();
ColsResolve ==
    /\ op = "cols" /\ pc = "resolve"
    /\ LET r == ResolveIndices(headers, columns) IN
       IF r.tag = "Err"
       THEN /\ Return(ColumnNotFound(r.name))
            /\ UNCHANGED indices
       ELSE /\ indices' = r.idx
            /\ pc' = "loop"
            /\ UNCHANGED outcome
    /\ UNCHANGED <<op, src, start, end, columns, i, headers, result, reads>>

\* One iteration of the for loop on a record the reader delivers.
ColsRecord ==
    /\ op = "cols" /\ pc = "loop"
    /\ LET r == ReaderRecord(src, i) IN
       /\ r.tag = "Ok"
       /\ result' = Append(result, ProjectRow(r.f, indices))
    /\ i' = i + 1
    /\ reads' = reads \cup Consumed(src, i)
    /\ UNCHANGED <<op, src, start, end, columns, pc, headers, indices, outcome>>

\* let record = record?;  on an Err item
ColsRecordErr ==
    /\ op = "cols" /\ pc = "loop"
    /\ LET r == ReaderRecord(src, i) IN
       /\ r.tag = "Err"
       /\ Return(FromCsvError(r.cause))
    /\ reads' = reads \cup Consumed(src, i)
    /\ UNCHANGED <<op, src, start, end, columns, i, headers, indices, result>>

\* The iterator is exhausted: Ok(result)
ColsExhausted ==
    /\ op = "cols" /\ pc = "loop"
    /\ ReaderRecord(src, i).tag = "None"
    /\ Return(Ok(result))
    /\ UNCHANGED <<op, src, start, end, columns, i, headers, indices, result,
                   reads>>

\* --------------------------------------------------------- specifications
NextRows == RowsOpen \/ RowsRecord \/ RowsRecordErr \/ RowsExhausted

NextCols ==
    \/ ColsOpen \/ ColsHeaders \/ ColsResolve
    \/ ColsRecord \/ ColsRecordErr \/ ColsExhausted

SpecRows == InitRows /\ [][NextRows]_vars

SpecCols == InitCols /\ [][NextCols]_vars

Init == InitRows \/ InitCols

Next == NextRows \/ NextCols

Spec == Init /\ [][Next]_vars

\* ------------------------------------------------------------ consistency
TypeOK ==
    /\ op \in {"rows", "cols"}
    /\ src \in Sources
    /\ pc \in {"open", "headers", "resolve", "loop", "done"}
    /\ i \in 0..MaxRows
    /\ outcome.tag \in {"Pending", "Ok", "Err"}
    /\ (pc = "done") = (outcome.tag # "Pending")

\* The step-wise run of extract_rows returns what the loop function returns.
RowsStepsAgree ==
    (op = "rows" /\ pc = "done") => outcome = ExtractRows(src, start, end)

\* ------------------------------------------------------ helpers of claims
Min(a, b) == IF a < b THEN a ELSE b

Max(a, b) == IF a > b THEN a ELSE b

NumLines == Len(src.lines)

\* The header and every data line are records the non-flexible reader
\* delivers: field tuples, each data line as long as the header.
AllTokenize(s) ==
    /\ s.opens
    /\ s.header.k = "rec"
    /\ \A j \in 1..Len(s.lines) :
          s.lines[j].k = "rec" /\ Len(s.lines[j].f) = Len(s.header.f)

\* The reader fails on data line j (0-based).
FailsAt(s, j) ==
    /\ j < Len(s.lines)
    /\ \/ s.lines[j + 1].k # "rec"
       \/ Len(s.lines[j + 1].f) # Len(s.header.f)

RowsDone == op = "rows" /\ pc = "done"

ColsDone == op = "cols" /\ pc = "done"

\* ----------------------------------------------------------------- C1
\* C1: on a source whose header and data records all tokenize, extract_rows
\* succeeds and returns exactly the data records with start <= i < end, in
\* stream order, without the header; its length is min(end, n) - min(start, n)
\* clamped to zero, n being the number of data rows.
C1_RowsAreTheRange ==
    (RowsDone /\ AllTokenize(src)) =>
        LET n   == NumLines
            lo  == Min(start, n)
            cnt == Max(Min(end, n) - lo, 0)
        IN /\ outcome.tag = "Ok"
           /\ Len(outcome.rows) = cnt
           /\ \A k \in 1..cnt : outcome.rows[k] = src.lines[lo + k].f

\* A call that cut a proper middle range out of three data rows.
C1_Witness ==
    /\ RowsDone /\ AllTokenize(src)
    /\ NumLines = 3 /\ start = 1 /\ end = 2
    /\ outcome = Ok(<<src.lines[2].f>>)

\* A second case of C1: the range reaches past the last row.
C1_WitnessPartial ==
    /\ RowsDone /\ AllTokenize(src)
    /\ NumLines = 2 /\ start = 1 /\ end = 4
    /\ outcome = Ok(<<src.lines[2].f>>)

\* ----------------------------------------------------------------- C2
\* Concatenation of two call outcomes: the first failure, or the rows of the
\* first call followed by the rows of the second.
ConcatOutcomes(o1, o2) ==
    IF o1.tag = "Err" THEN o1
    ELSE IF o2.tag = "Err" THEN o2
    ELSE Ok(o1.rows \o o2.rows)

\* C2: for all a <= b <= c and every source, extract_rows(src, a, b) followed
\* by extract_rows(src, b, c) equals extract_rows(src, a, c): no row is
\* duplicated or skipped at b.
C2_RangesCompose ==
    (RowsDone /\ start <= end) =>
        \A b \in start..end :
            ConcatOutcomes(ExtractRows(src, start, b), ExtractRows(src, b, end))
                = outcome

\* A call whose range has an inner boundary with rows on both sides of it.
C2_Witness ==
    /\ RowsDone /\ outcome.tag = "Ok"
    /\ start + 2 <= end /\ end <= NumLines
    /\ Len(outcome.rows) = end - start
    /\ Len(ExtractRows(src, start, start + 1).rows) = 1

\* ----------------------------------------------------------------- C7
\* The reference of the design notes: read every data record to the end of
\* the stream, then keep those with start <= i < end.
RECURSIVE ScanAll(_, _, _)
ScanAll(s, j, acc) ==
    LET r == ReaderRecord(s, j) IN
    IF r.tag = "None" THEN Ok(acc)
    ELSE IF r.tag = "Err" THEN FromCsvError(r.cause)
    ELSE ScanAll(s, j + 1, Append(acc, r.f))

FullScanThenFilter(s, lo, hi) ==
    IF ~s.opens THEN FromIoError("open")
    ELSE LET all == ScanAll(s, 0, <<>>) IN
         IF all.tag = "Err" THEN all
         ELSE LET n   == Len(all.rows)
                  l   == Min(lo, n)
                  cnt == Max(Min(hi, n) - l, 0)
              IN Ok([k \in 1..cnt |-> all.rows[l + k]])

\* C7 as stated: extract_rows and the full scan have the same outcome on
\* every source and all start and end.
C7_SameAsFullScan ==
    RowsDone => outcome = FullScanThenFilter(src, start, end)

\* If the reader fails on some data line, it fails on one at index <= end.
FirstFailureWithinEnd(s, hi) ==
    (\E j \in 0..Len(s.lines) : FailsAt(s, j))
        => (\E j \in 0..Min(hi, Len(s.lines)) : FailsAt(s, j))

\* C7 amended: extract_rows and the full scan have the same outcome whenever
\* the first untokenizable data record, if there is one, has an index <= end.
C7_SameAsFullScanUpToEnd ==
    (RowsDone /\ FirstFailureWithinEnd(src, end)) =>
        outcome = FullScanThenFilter(src, start, end)

\* A call that returned rows and left the tail of the file unread.
C7_Witness ==
    /\ RowsDone /\ outcome.tag = "Ok" /\ Len(outcome.rows) > 0
    /\ FirstFailureWithinEnd(src, end)
    /\ end + 1 < NumLines
    /\ (NumLines - 1) \notin reads

\* ----------------------------------------------------------------- C10
\* The source cut after its first n data lines.
Truncate(s, n) ==
    [s EXCEPT !.lines = SubSeq(s.lines, 1, Min(n, Len(s.lines)))]

\* C10: extract_rows consumes data records in index order and never one with
\* an index above end; it does consume the record at index end; its outcome
\* is that of the call on the file cut after index end; a record the reader
\* fails on at an index <= end fails the call with no rows, one above end
\* never does.
C10_ReadsUpToEndInclusive ==
    (op = "rows") =>
        /\ \A j \in reads : j <= end /\ \A k \in 0..j : k \in reads
        /\ RowsDone =>
            /\ outcome = ExtractRows(Truncate(src, end + 1), start, end)
            /\ (outcome.tag = "Ok" /\ end < NumLines) => end \in reads
            /\ (\E j \in 0..end : FailsAt(src, j))
                  => (outcome.tag = "Err" /\ outcome.rows = <<>>)
            /\ (src.opens /\ src.header.k = "rec"
                  /\ \A j \in 0..end : ~FailsAt(src, j))
                  => outcome.tag = "Ok"

\* An empty range whose call failed on the record at index end, with more
\* lines behind it.
C10_Witness ==
    /\ RowsDone /\ start >= end /\ end > 0
    /\ reads = 0..end
    /\ FailsAt(src, end) /\ outcome.tag = "Err"
    /\ end + 1 < NumLines

\* A call that succeeded although a later line is one the reader fails on.
C10_WitnessLater ==
    /\ RowsDone /\ outcome.tag = "Ok"
    /\ end + 1 < NumLines /\ FailsAt(src, end + 1)
    /\ end \in reads

\* ----------------------------------------------------------------- C3
Range(f) == {f[n] : n \in 1..Len(f)}

AllRequestedPresent == \A n \in 1..Len(columns) : columns[n] \in Range(src.header.f)

\* C3: when every requested name occurs in the header and all records
\* tokenize, extract_columns returns one row per data record in stream
\* order, whatever names are requested; each row has len(names) values and
\* its k-th value is the record's field at the position resolved for
\* names[k], a header position that holds names[k].
C3_OneRowPerRecord ==
    (ColsDone /\ AllTokenize(src) /\ AllRequestedPresent) =>
        /\ outcome.tag = "Ok"
        /\ Len(outcome.rows) = NumLines
        /\ Len(indices) = Len(columns)
        /\ \A r \in 1..NumLines :
              /\ Len(outcome.rows[r]) = Len(columns)
              /\ \A k \in 1..Len(columns) :
                    /\ indices[k] \in 0..(Len(src.header.f) - 1)
                    /\ src.header.f[indices[k] + 1] = columns[k]
                    /\ outcome.rows[r][k] = src.lines[r].f[indices[k] + 1]

\* Three records projected on two columns in swapped order.
C3_Witness ==
    /\ ColsDone /\ AllTokenize(src)
    /\ src.header.f = <<"a", "b">> /\ columns = <<"b", "a">>
    /\ NumLines = 3 /\ src.lines[1].f = <<"x", "y">>
    /\ outcome.tag = "Ok" /\ Len(outcome.rows) = 3
    /\ outcome.rows[1] = <<"y", "x">>

\* No names requested: still one (empty) row per record.
C3_WitnessNoNames ==
    /\ ColsDone /\ AllTokenize(src) /\ columns = <<>>
    /\ NumLines = 2 /\ outcome = Ok(<<<<>>, <<>>>>)

\* ----------------------------------------------------------------- C4
Absent(n) == columns[n] \notin Range(src.header.f)

\* C4: when the header was read and some requested name is absent from it,
\* extract_columns fails with column-not-found carrying the first absent
\* name in request order and returns no rows, also when the other requested
\* names are present.
C4_FirstAbsentNameReported ==
    (ColsDone /\ src.opens /\ src.header.k = "rec"
        /\ \E n \in 1..Len(columns) : Absent(n)) =>
        LET first == CHOOSE n \in 1..Len(columns) :
                        Absent(n) /\ \A m \in 1..(n - 1) : ~Absent(m)
        IN /\ outcome.tag = "Err"
           /\ outcome.kind = "ColumnNotFound"
           /\ outcome.name = columns[first]
           /\ outcome.rows = <<>>

\* Two absent names: the first requested one is reported.
C4_Witness ==
    /\ ColsDone /\ src.header.f = <<"a">> /\ columns = <<"c", "b">>
    /\ NumLines > 0
    /\ outcome = ColumnNotFound("c")

\* One present and one absent name.
C4_WitnessOtherPresent ==
    /\ ColsDone /\ src.header.f = <<"a", "b">> /\ columns = <<"a", "c">>
    /\ NumLines > 0
    /\ outcome = ColumnNotFound("c")

\* ----------------------------------------------------------------- C5
\* C5: every failure is one of the three kinds and the kind matches the
\* cause: a stream that does not open or fails while being read gives the
\* I/O kind, an untokenizable line the parse kind, a missing column
\* column-not-found; a read failure after the open is never the parse kind.
C5_KindMatchesCause ==
    (pc = "done" /\ outcome.tag = "Err") =>
        /\ outcome.kind \in {"Io", "Csv", "ColumnNotFound"}
        /\ outcome.cause \in {"open", "read"} => outcome.kind = "Io"
        /\ outcome.cause \in {"parse", "lengths"} => outcome.kind = "Csv"
        /\ outcome.cause = "column" => outcome.kind = "ColumnNotFound"

\* ----------------------------------------------------------------- C6
\* Every data line is a field tuple no longer than the header.
ShortRowsOnly(s) ==
    /\ s.opens
    /\ s.header.k = "rec"
    /\ \A j \in 1..Len(s.lines) :
          s.lines[j].k = "rec" /\ Len(s.lines[j].f) <= Len(s.header.f)

FirstPos(h, name) ==
    CHOOSE p \in 1..Len(h) : h[p] = name /\ \A q \in 1..(p - 1) : h[q] # name

\* C6: a data record with fewer fields than a resolved index requires does
\* not fail extract_columns: its output row holds "" at that position and
\* the call returns one row for every data record.
C6_ShortRowsPadded ==
    (ColsDone /\ ShortRowsOnly(src) /\ AllRequestedPresent) =>
        /\ outcome.tag = "Ok"
        /\ Len(outcome.rows) = NumLines
        /\ \A r \in 1..NumLines : \A k \in 1..Len(columns) :
              LET p == FirstPos(src.header.f, columns[k]) IN
              outcome.rows[r][k] =
                  IF p <= Len(src.lines[r].f) THEN src.lines[r].f[p] ELSE ""

\* ----------------------------------------------------------------- C8
\* C8: extract_columns reports the first error in the order open, header,
\* resolution, data records: no data record is consumed before the names
\* are resolved, an absent name gives column-not-found whatever the data
\* records are, a failure on a data record is reported only when every
\* requested name resolved, and a failed call returns no rows.
C8_ErrorsInOrder ==
    (op = "cols") =>
        /\ pc \in {"open", "headers", "resolve"} => (reads = {} /\ result = <<>>)
        /\ ColsDone =>
            /\ ~src.opens => (outcome.kind = "Io" /\ outcome.cause = "open")
            /\ (src.opens /\ src.header.k # "rec")
                  => (outcome.kind = "Csv" /\ reads = {})
            /\ (src.opens /\ src.header.k = "rec" /\ ~AllRequestedPresent)
                  => (outcome.kind = "ColumnNotFound" /\ reads = {})
            /\ (outcome.kind = "Csv" /\ reads # {})
                  => (AllRequestedPresent /\ Len(indices) = Len(columns))
            /\ outcome.tag = "Err" => outcome.rows = <<>>

\* An absent name reported although the first data record is untokenizable.
C8_Witness ==
    /\ ColsDone /\ outcome.kind = "ColumnNotFound"
    /\ NumLines > 1 /\ src.lines[1].k = "bad"
    /\ reads = {}

\* A failure on the second data record, after every name resolved and one
\* row was built.
C8_WitnessParse ==
    /\ ColsDone /\ outcome.kind = "Csv" /\ outcome.cause = "parse"
    /\ reads = {0, 1} /\ Len(result) = 1 /\ Len(columns) = 2

\* ----------------------------------------------------------------- C9
\* C9: each requested name resolves, independently of the others, to the
\* smallest header position holding it; there are as many indices as
\* requested names and every output row is built from them, so a name
\* requested twice yields the same value at both positions of every row.
C9_FirstMatchWins ==
    (op = "cols" /\ (pc = "loop" \/ (pc = "done" /\ outcome.tag = "Ok"))) =>
        /\ Len(indices) = Len(columns)
        /\ \A k \in 1..Len(columns) :
              indices[k] + 1 = FirstPos(headers, columns[k])
        /\ \A r \in 1..Len(result) :
              /\ Len(result[r]) = Len(columns)
              /\ \A k \in 1..Len(columns) :
                    result[r][k] = src.lines[r].f[FirstPos(headers, columns[k])]
              /\ \A k1, k2 \in 1..Len(columns) :
                    columns[k1] = columns[k2] => result[r][k1] = result[r][k2]

\* A header that repeats a name, and that name requested twice.
C9_Witness ==
    /\ ColsDone /\ src.header.f = <<"a", "a">> /\ columns = <<"a", "a">>
    /\ NumLines = 2 /\ src.lines[1].f = <<"x", "y">>
    /\ indices = <<0, 0>>
    /\ outcome.tag = "Ok" /\ outcome.rows[1] = <<"x", "x">>

=============================================================================
